---- MODULE Spec2Model ----
(***************************************************************************)
(* The transition-graph pipeline of aethra: GraphProcessor (construction   *)
(* of a weighted directed graph from a transition matrix and a label map,  *)
(* filter_graph, extract_intent_and_matrix_from_graph) and ThresholdFilter,*)
(* and of aiklyra: AiklyraClient (analyse), AgentMetrics (_get_score) and  *)
(* the static graph visualizers.                                           *)
(*                                                                         *)
(* Representation.  A Python list is a sequence (index i of the code is    *)
(* position i + 1 here).  A dict is the sequence of its items in insertion *)
(* order, each item a record [key, value].  A networkx DiGraph is a record *)
(* [kind, nodes, edges]: nodes in insertion order, edges a set of records  *)
(* [u, v, weight] with at most one edge per ordered pair (u, v).  Weights  *)
(* and thresholds are counted in tenths (9 is 0.9, -2 is -0.2).  A call    *)
(* ends with raised = "none" or with the name of the Python exception.     *)
(***************************************************************************)
EXTENDS Integers, Sequences, FiniteSets, TLC

VARIABLES pc, arg_matrix, arg_labels, transition_matrix, intent_by_cluster,
          graph, last_call, applied_to, threshold, raised, returned,
          caller_matrix, caller_labels, input_after, same_object, copies,
          chain,
          client_pc, init_args, client, call_args, response, posts,
          client_raised, client_returned, caller_data,
          judge_model, metrics, score_of, judge_calls, judge_outcome,
          score_raised, score_returned,
          viz_call, viz_steps, viz_raised

(* arg_matrix and arg_labels are the contents the caller's objects had     *)
(* when they were passed in; caller_matrix and caller_labels are what      *)
(* those objects hold now.  input_after is what the graph object passed to *)
(* the last apply holds after the call, same_object whether the graph it   *)
(* returned is that very object, copies the number of graphs it created.   *)
(* chain is the set of thresholds of the ApplyChain calls made so far,     *)
(* the first on the processor's graph and each later one on the result of  *)
(* the one before.                                                         *)

graphVars == <<pc, arg_matrix, arg_labels, transition_matrix, intent_by_cluster,
               graph, last_call, applied_to, threshold, raised, returned,
               caller_matrix, caller_labels, input_after, same_object, copies,
               chain>>

(* client_pc tells whether an AiklyraClient exists, init_args what its    *)
(* constructor was given and client its fields; call_args, response,      *)
(* posts, client_raised and client_returned describe its analyse call:    *)
(* the arguments, what the service answered, the HTTP requests sent, the  *)
(* exception and the return value; caller_data is what the dictionary     *)
(* passed as conversation_data holds after the call.                       *)

clientVars == <<client_pc, init_args, client, call_args, response, posts,
                client_raised, client_returned, caller_data>>

(* judge_model is the class attribute LLMClient.judge_model; metrics maps  *)
(* the AgentMetrics objects created so far to their fields and to the      *)
(* model_instance their constructor was given; score_of is the object of   *)
(* the last _get_score call, judge_calls the calls it made, judge_outcome  *)
(* what the judge model did, score_raised and score_returned how it ended. *)

metricsVars == <<judge_model, metrics, score_of, judge_calls, judge_outcome,
                 score_raised, score_returned>>

(* viz_call is the last visualize call (class, graph, layout, save_path), *)
(* viz_steps the plotting calls it made in order, viz_raised how it ended. *)

vizVars == <<viz_call, viz_steps, viz_raised>>

vars == <<graphVars, clientVars, metricsVars, vizVars>>

---------------------------------------------------------------------------
(* Bounds and input domains *)

MaxN == 2

MaxNonZero == 2

Weights == {-2, 0, 9}

Thresholds == {0, 9, 10}

LabelNames == <<"a", "b", "c", "d", "e">>

NoValue == [kind |-> "none"]

GraphProcessorClass == [kind |-> "class", name |-> "GraphProcessor"]

---------------------------------------------------------------------------
(* Python values *)

Keys(d) == {d[p].key : p \in DOMAIN d}

Values(d) == [p \in DOMAIN d |-> d[p].value]

Get(d, k) == d[CHOOSE p \in DOMAIN d : d[p].key = k].value

Range(s) == {s[p] : p \in DOMAIN s}

EmptyDiGraph == [kind |-> "DiGraph", nodes |-> <<>>, edges |-> {}]

IsDiGraph(x) == x.kind = "DiGraph"

Nodes(g) == Range(g.nodes)

HasEdge(g, u, v) == \E e \in g.edges : e.u = u /\ e.v = v

EdgeWeight(g, u, v) == (CHOOSE e \in g.edges : e.u = u /\ e.v = v).weight

add_node(g, n) ==
    IF n \in Nodes(g) THEN g ELSE [g EXCEPT !.nodes = Append(g.nodes, n)]

add_edge(g, u, v, w) ==
    LET g2 == add_node(add_node(g, u), v)
    IN  [g2 EXCEPT !.edges = {e \in g2.edges : ~(e.u = u /\ e.v = v)}
                                \cup {[u |-> u, v |-> v, weight |-> w]}]

remove_edge(g, u, v) ==
    [g EXCEPT !.edges = {e \in g.edges : ~(e.u = u /\ e.v = v)}]

copy(g) == [kind |-> "DiGraph", nodes |-> g.nodes, edges |-> g.edges]

Ok(v) == [raised |-> "none", value |-> v]

Raise(x) == [raised |-> x, value |-> NoValue]

Rectangular(m) == \A r, s \in DOMAIN m : Len(m[r]) = Len(m[s])

---------------------------------------------------------------------------
(* Calling convention.  A call binds its positional arguments to the       *)
(* parameters of the def; a bound method or a classmethod puts the         *)
(* instance or the class in front of them.  A count that differs from the  *)
(* number of parameters raises TypeError before the body runs.             *)

ThresholdFilterApplyParams == 2

ExtractParams == 1

BindMethod(receiver, args) == <<receiver>> \o args

Binds(bound, params) == Len(bound) = params

---------------------------------------------------------------------------
(* GraphProcessor._construct_graph *)

construct_edge_sparse(g, from_intent, to_intent, weight) ==
    IF weight > 0 THEN add_edge(g, from_intent, to_intent, weight) ELSE g

construct_edge_rounded(g, from_intent, to_intent, weight) ==
    add_edge(g, from_intent, to_intent, ((weight + 5) \div 10) * 10)

construct_edge_transposed(g, from_intent, to_intent, weight) ==
    add_edge(g, to_intent, from_intent, weight)

construct_edge(g, from_intent, to_intent, weight) ==
    add_edge(g, from_intent, to_intent, weight)

RECURSIVE construct_row(_, _, _, _, _)
construct_row(r, ibc, from_intent, weights, j) ==
    IF r.raised # "none" \/ j >= Len(weights) THEN r
    ELSE IF j \notin Keys(ibc) THEN Raise("KeyError")
    ELSE construct_row(
             Ok(construct_edge(r.value, from_intent, Get(ibc, j), weights[j + 1])),
             ibc, from_intent, weights, j + 1)

(* Reading a row leaves the list it is read from as it is: after is the  *)
(* content of self.transition_matrix, the caller's own list, once read.    *)

row_read_and_clear(tm, i) ==
    [value |-> tm[i + 1], after |-> [tm EXCEPT ![i + 1] = <<>>]]

row_read(tm, i) == [value |-> tm[i + 1], after |-> tm]

RECURSIVE construct_rows(_, _, _, _)
construct_rows(r, tm, ibc, p) ==
    IF r.raised # "none" \/ p > Len(ibc)
        THEN [raised |-> r.raised, value |-> r.value, matrix |-> tm]
    ELSE LET i == ibc[p].key
         IN  IF i >= Len(tm)
                 THEN [raised |-> "IndexError", value |-> NoValue, matrix |-> tm]
             ELSE LET weights == row_read(tm, i)
                  IN  construct_rows(
                          construct_row(r, ibc, ibc[p].value, weights.value, 0),
                          weights.after, ibc, p + 1)

RECURSIVE construct_nodes(_, _, _)
construct_nodes(g, intents, p) ==
    IF p > Len(intents) THEN g
    ELSE construct_nodes(add_node(g, intents[p]), intents, p + 1)

construct_graph(tm, ibc) ==
    construct_rows(Ok(construct_nodes(EmptyDiGraph, Values(ibc), 1)), tm, ibc, 1)

---------------------------------------------------------------------------
(* ThresholdFilter *)

(* __init__ stores whatever it is given; threshold_type is the Python     *)
(* type of the stored value.                                               *)

ThresholdFilterOf(t, type) ==
    [kind |-> "ThresholdFilter", threshold |-> t, threshold_type |-> type]

ThresholdFilter(t) == ThresholdFilterOf(t, "float")

NonNumericThresholdFilter == ThresholdFilterOf("high", "str")

below_threshold_or_equal(weight, t) == weight <= t

below_threshold_inverted(weight, t) == weight > t

below_threshold(weight, t) == weight < t

drop_edge_and_isolated(g, u, v) ==
    LET g2   == remove_edge(g, u, v)
        keep == {n \in Nodes(g2) : \E e \in g2.edges : e.u = n \/ e.v = n}
    IN  [g2 EXCEPT !.nodes = SelectSeq(g2.nodes, LAMBDA n : n \in keep)]

drop_edge(g, u, v) == remove_edge(g, u, v)

RECURSIVE apply_loop(_, _, _)
apply_loop(filtered_graph, todo, t) ==
    IF todo = {} THEN filtered_graph
    ELSE LET e == CHOOSE x \in todo : TRUE
         IN  apply_loop(IF below_threshold(e.weight, t)
                            THEN drop_edge(filtered_graph, e.u, e.v)
                            ELSE filtered_graph,
                        todo \ {e}, t)

(* Graph objects.  heap is the list of the graph objects alive during a   *)
(* call, heap[1] the one passed in; graph.copy() creates a new object.     *)

copy_ref_alias(heap, id) == [heap |-> heap, id |-> id]

copy_ref(heap, id) ==
    [heap |-> Append(heap, copy(heap[id])), id |-> Len(heap) + 1]

apply_object(self, heap, id) ==
    LET c              == copy_ref(heap, id)
        filtered_graph == c.heap[c.id]
    IN  [heap |-> [c.heap EXCEPT ![c.id] =
                       apply_loop(filtered_graph, filtered_graph.edges,
                                  self.threshold)],
         id   |-> c.id]

apply(self, g) ==
    LET h == apply_object(self, <<g>>, 1)
    IN  h.heap[h.id]

(* data['weight'] < self.threshold raises TypeError when the threshold is  *)
(* not a number; the comparison is reached at the first edge, after the    *)
(* copy.                                                                   *)

comparison_raises(self, g) == self.threshold_type # "float" /\ g.edges # {}

call_apply(self, args) ==
    LET bound == BindMethod(self, args)
        heap  == <<args[1]>>
    IN  IF ~Binds(bound, ThresholdFilterApplyParams)
            THEN [raised |-> "TypeError", value |-> NoValue, heap |-> heap, id |-> 0]
        ELSE IF comparison_raises(bound[1], bound[2])
            THEN [raised |-> "TypeError", value |-> NoValue,
                  heap |-> copy_ref(heap, 1).heap, id |-> 0]
        ELSE LET h == apply_object(bound[1], heap, 1)
             IN  [raised |-> "none", value |-> h.heap[h.id],
                  heap |-> h.heap, id |-> h.id]

---------------------------------------------------------------------------
(* GraphProcessor.extract_intent_and_matrix_from_graph *)

node_to_index(nodes, n) == (CHOOSE p \in DOMAIN nodes : nodes[p] = n) - 1

zeros(size) == [i \in 1..size |-> [j \in 1..size |-> 0]]

RECURSIVE extract_loop(_, _, _)
extract_loop(matrix, nodes, todo) ==
    IF todo = {} THEN matrix
    ELSE LET e == CHOOSE x \in todo : TRUE
             i == node_to_index(nodes, e.u)
             j == node_to_index(nodes, e.v)
         IN  extract_loop([matrix EXCEPT ![i + 1][j + 1] = e.weight],
                          nodes, todo \ {e})

extract_body(g) ==
    IF ~IsDiGraph(g) THEN Raise("AttributeError")
    ELSE LET nodes == g.nodes
             ibc   == [p \in 1..Len(nodes) |-> [key |-> p - 1, value |-> nodes[p]]]
         IN  Ok([kind |-> "tuple",
                 intent_by_cluster |-> ibc,
                 transition_matrix |-> extract_loop(zeros(Len(nodes)), nodes, g.edges)])

call_extract(args) ==
    LET bound == BindMethod(GraphProcessorClass, args)
    IN  IF ~Binds(bound, ExtractParams) THEN Raise("TypeError")
        ELSE extract_body(bound[1])

---------------------------------------------------------------------------
(* GraphProcessor.filter_graph.  np.array of a list whose rows differ in    *)
(* length raises ValueError or yields an object array, depending on the    *)
(* numpy release: both outcomes are kept.  self is assigned only after     *)
(* both calls have returned.                                               *)

np_array(tm) ==
    IF Rectangular(tm) THEN {Ok(tm)} ELSE {Ok(tm), Raise("ValueError")}

Self == [transition_matrix |-> transition_matrix,
         intent_by_cluster |-> intent_by_cluster,
         graph             |-> graph]

filter_graph_assigns_first(self, filter_strategy, arr) ==
    IF arr.raised # "none" THEN [raised |-> arr.raised, value |-> NoValue, self |-> self]
    ELSE LET new_graph == call_apply(filter_strategy, <<self.graph>>)
             assigned  == [self EXCEPT !.graph = new_graph.value]
         IN  IF new_graph.raised # "none"
             THEN [raised |-> new_graph.raised, value |-> NoValue, self |-> self]
             ELSE LET ex == call_extract(<<new_graph.value>>)
                  IN  IF ex.raised # "none"
                      THEN [raised |-> ex.raised, value |-> NoValue, self |-> assigned]
                      ELSE [raised |-> "none",
                            value  |-> new_graph.value,
                            self   |-> [assigned EXCEPT
                                          !.transition_matrix = ex.value.transition_matrix,
                                          !.intent_by_cluster = ex.value.intent_by_cluster]]

filter_graph(self, filter_strategy, arr) ==
    IF arr.raised # "none" THEN [raised |-> arr.raised, value |-> NoValue, self |-> self]
    ELSE LET new_graph == call_apply(filter_strategy,
                                     <<self.graph, arr.value, self.intent_by_cluster>>)
         IN  IF new_graph.raised # "none"
             THEN [raised |-> new_graph.raised, value |-> NoValue, self |-> self]
             ELSE LET ex == call_extract(<<new_graph.value>>)
                  IN  IF ex.raised # "none"
                      THEN [raised |-> ex.raised, value |-> NoValue, self |-> self]
                      ELSE [raised |-> "none",
                            value  |-> new_graph.value,
                            self   |-> [transition_matrix |-> ex.value.transition_matrix,
                                        intent_by_cluster |-> ex.value.intent_by_cluster,
                                        graph             |-> new_graph.value]]


---------------------------------------------------------------------------
(* AiklyraClient.  A text is the sequence of its words and punctuation     *)
(* marks, "x in text" the search for a run of consecutive words.           *)

MaxClusterArg == 2

MaxMessages == 2

DefaultMinClusters == 5

DefaultMaxClusters == 10

DefaultTopK == 10

BASE_ANALYSE_ENDPOINT == "conversation-flow-analysis/base_analyse-conversation-flow"

NoClient == [api_key |-> "", base_url |-> <<>>, headers |-> {}]

NoInitArgs == [has_api_key |-> FALSE, api_key |-> "", base_url |-> <<>>]

NoConversationData == [type |-> "none", items |-> <<>>]

NoCall ==
    [conversation_data |-> NoConversationData, min_clusters |-> 0,
     max_clusters |-> 0, top_k_nearest_to_centroid |-> 0, role |-> ""]

NoResponse ==
    [kind |-> "none", status |-> 0, json |-> "", model_valid |-> FALSE,
     detail_type |-> "", detail |-> <<>>, text |-> <<>>]

NoException == [type |-> "none", message |-> <<>>]

Exception(type, message) == [type |-> type, message |-> message]

Contains(text, phrase) ==
    \E k \in 0..(Len(text) - Len(phrase)) :
        \A q \in 1..Len(phrase) : text[k + q] = phrase[q]

(* The exception classes of exceptions.py: the three API errors derive    *)
(* from the API base class.                                                *)

IsInstance(type, class) ==
    \/ type = class
    \/ /\ class = "AiklyraAPIError"
       /\ type \in {"InvalidAPIKeyError", "InsufficientCreditsError", "AnalysisError"}

RECURSIVE rstrip(_)
rstrip(text) ==
    IF text # <<>> /\ text[Len(text)] = "/"
        THEN rstrip(SubSeq(text, 1, Len(text) - 1))
        ELSE text

(* __init__(self, api_key, base_url = "http://localhost:8002"): api_key    *)
(* has no default, so a call without it raises TypeError.                  *)

client_init(args) ==
    IF ~args.has_api_key THEN [raised |-> Exception("TypeError", <<>>), self |-> NoClient]
    ELSE [raised |-> NoException,
          self   |-> [api_key  |-> args.api_key,
                      base_url |-> rstrip(args.base_url),
                      headers  |-> {<<"Authorization", <<"Bearer", args.api_key>>>>,
                                    <<"Content-Type", <<"application/json">>>>}]]

not_positive_both(min_clusters, max_clusters) ==
    min_clusters <= 0 /\ max_clusters <= 0

not_positive(min_clusters, max_clusters) ==
    min_clusters <= 0 \/ max_clusters <= 0

validate(conversation_data, min_clusters, max_clusters) ==
    IF conversation_data.type # "dict"
        THEN Exception("ValidationError",
                       <<"conversation_data", "must", "be", "a", "dictionary", ".">>)
    ELSE IF not_positive(min_clusters, max_clusters)
        THEN Exception("ValidationError",
                       <<"min_clusters", "and", "max_clusters", "must", "be",
                         "positive", "integers", ".">>)
    ELSE IF min_clusters > max_clusters
        THEN Exception("ValidationError",
                       <<"Max", "clusters", "needs", "to", "be", "greater", "than",
                         "Min", "Clusters">>)
    ELSE NoException

(* The role filter: msg["role"] raises KeyError for a message without the  *)
(* key.                                                                    *)

filter_conv(conv, role) == SelectSeq(conv, LAMBDA msg : msg.role = role)

filtered_by_role(conversation_data, role) ==
    [type  |-> "dict",
     items |-> [p \in DOMAIN conversation_data.items |->
                   [key   |-> conversation_data.items[p].key,
                    value |-> filter_conv(conversation_data.items[p].value, role)]]]

(* The filtered lists go into a new dictionary; input is what the caller's *)
(* dictionary holds afterwards.                                            *)

filter_by_role_in_place(conversation_data, role) ==
    IF role = "Any"
        THEN [raised |-> "none", value |-> conversation_data,
              input |-> conversation_data]
    ELSE IF \E p \in DOMAIN conversation_data.items :
                \E q \in DOMAIN conversation_data.items[p].value :
                    ~conversation_data.items[p].value[q].has_role
        THEN [raised |-> "KeyError", value |-> NoValue, input |-> conversation_data]
    ELSE [raised |-> "none", value |-> filtered_by_role(conversation_data, role),
          input |-> filtered_by_role(conversation_data, role)]

filter_by_role(conversation_data, role) ==
    IF role = "Any"
        THEN [raised |-> "none", value |-> conversation_data,
              input |-> conversation_data]
    ELSE IF \E p \in DOMAIN conversation_data.items :
                \E q \in DOMAIN conversation_data.items[p].value :
                    ~conversation_data.items[p].value[q].has_role
        THEN [raised |-> "KeyError", value |-> NoValue, input |-> conversation_data]
    ELSE [raised |-> "none", value |-> filtered_by_role(conversation_data, role),
          input |-> conversation_data]

ConversationFlowAnalysisRequest(conversation_data, min_clusters, max_clusters, top_k_nearest_to_centroid, role) ==
    [conversation_data         |-> conversation_data,
     min_clusters              |-> min_clusters,
     max_clusters              |-> max_clusters,
     top_k_nearest_to_centroid |-> top_k_nearest_to_centroid,
     role                      |-> role]

analyse_url(self) == self.base_url \o <<"/", BASE_ANALYSE_ENDPOINT>>

(* The answer.  On 200 everything that fails inside the try block becomes  *)
(* AnalysisError: response.json() on a body that is no JSON, ** on a body  *)
(* that is no object, the response model rejecting the fields.             *)

parse_failure_reraise(resp) ==
    IF resp.json = "not_json" THEN Exception("JSONDecodeError", <<>>)
    ELSE IF resp.json = "list" THEN Exception("TypeError", <<>>)
    ELSE Exception("PydanticValidationError", <<>>)

parse_failure(resp) ==
    Exception("AnalysisError", <<"Failed", "to", "parse", "response", ":">>)

on_ok(resp) ==
    IF resp.json = "dict" /\ resp.model_valid
        THEN [raised |-> NoException, value |-> [kind |-> "response_model"]]
        ELSE [raised |-> parse_failure(resp), value |-> NoValue]

forbidden_credits_first(detail) ==
    IF Contains(detail, <<"Insufficient", "credits">>)
        THEN Exception("InsufficientCreditsError", <<"Insufficient", "credits", ".">>)
    ELSE IF Contains(detail, <<"Invalid", "API", "Key">>)
        THEN Exception("InvalidAPIKeyError", <<"Invalid", "API", "Key", ".">>)
    ELSE Exception("AiklyraAPIError", <<"Forbidden", ":">> \o detail)

forbidden(detail) ==
    IF Contains(detail, <<"Invalid", "API", "Key">>)
        THEN Exception("InvalidAPIKeyError", <<"Invalid", "API", "Key", ".">>)
    ELSE IF Contains(detail, <<"Insufficient", "credits">>)
        THEN Exception("InsufficientCreditsError", <<"Insufficient", "credits", ".">>)
    ELSE Exception("AiklyraAPIError", <<"Forbidden", ":">> \o detail)

on_forbidden(resp) ==
    IF resp.json = "not_json" THEN Exception("JSONDecodeError", <<>>)
    ELSE IF resp.json = "list" THEN Exception("AttributeError", <<>>)
    ELSE IF resp.detail_type = "null" THEN Exception("TypeError", <<>>)
    ELSE forbidden(IF resp.detail_type = "absent" THEN <<>> ELSE resp.detail)

other_status_no_code(resp) ==
    Exception("AiklyraAPIError", <<"Error", ":">> \o resp.text)

other_status(resp) ==
    Exception("AiklyraAPIError",
              <<"Error", ToString(resp.status), ":">> \o resp.text)

on_response(resp) ==
    IF resp.status = 200 THEN on_ok(resp)
    ELSE IF resp.status = 403 THEN [raised |-> on_forbidden(resp), value |-> NoValue]
    ELSE [raised |-> other_status(resp), value |-> NoValue]

analyse(self, args, resp) ==
    LET invalid == validate(args.conversation_data, args.min_clusters,
                            args.max_clusters)
    IN  IF invalid.type # "none"
            THEN [raised |-> invalid, value |-> NoValue, posts |-> <<>>,
                  input |-> args.conversation_data]
        ELSE LET filtered == filter_by_role(args.conversation_data, args.role)
             IN  IF filtered.raised # "none"
                     THEN [raised |-> Exception(filtered.raised, <<>>),
                           value |-> NoValue, posts |-> <<>>,
                           input |-> filtered.input]
                 ELSE LET post == [url     |-> analyse_url(self),
                                   headers |-> self.headers,
                                   json    |-> ConversationFlowAnalysisRequest(
                                                   filtered.value,
                                                   args.min_clusters,
                                                   args.max_clusters,
                                                   args.top_k_nearest_to_centroid,
                                                   args.role)]
                      IN  IF resp.kind = "RequestException"
                              THEN [raised |-> Exception("AiklyraAPIError",
                                                         <<"Request", "failed", ":">>),
                                    value |-> NoValue, posts |-> <<post>>,
                                    input |-> filtered.input]
                          ELSE LET r == on_response(resp)
                               IN  [raised |-> r.raised, value |-> r.value,
                                    posts |-> <<post>>, input |-> filtered.input]


---------------------------------------------------------------------------
(* AgentMetrics and LLMClient.  "None" is Python's None; a judge model is  *)
(* named by the object passed as model_instance.                           *)

MaxInstances == 2

NoOutcome == [kind |-> "none", type |-> "", message |-> <<>>, choices |-> <<>>]

set_model(model, model_instance) == model_instance

construct_prompt(user_input, reference_topics, llm_answer) ==
    IF llm_answer # "None"
        THEN <<"User Questions :", user_input, "LLM Answer :", llm_answer,
               "Reference Topics :", reference_topics>>
        ELSE <<"User Questions :", user_input, "Reference Topics :", reference_topics>>

(* __load_system_prompt: "except FileNotFoundError or IOError" handles     *)
(* FileNotFoundError only, and its "raise" of a string is a TypeError.     *)

load_system_prompt(task_name, file) ==
    IF file = "present" THEN [raised |-> NoException, value |-> <<"prompt of", task_name>>]
    ELSE IF file = "missing"
        THEN [raised |-> Exception("TypeError", <<>>), value |-> <<>>]
    ELSE [raised |-> Exception("PermissionError", <<>>), value |-> <<>>]

(* __init__: the class attribute is set before the system prompt is read.  *)

agent_metrics_init(model, task_name, llm_answer, model_instance, file) ==
    LET loaded == load_system_prompt(task_name, file)
    IN  [raised      |-> loaded.raised,
         judge_model |-> set_model(model, model_instance),
         self        |-> [prompt         |-> construct_prompt("questions", "topics",
                                                              llm_answer),
                          task_name      |-> task_name,
                          system_prompt  |-> loaded.value,
                          model_instance |-> model_instance]]

response_format_always_score(task_name) == "ScoreSchema"

response_format(task_name) ==
    IF task_name = "faithfulness" THEN "FaithfulnessSchema" ELSE "ScoreSchema"

wrap_error_no_message(e) == Exception("ValueError", <<>>)

wrap_error(e) == Exception("ValueError", e.message)

(* _get_score.  outcome is what the judge model does when it is called:    *)
(* it raises, or returns a result with a list of choices; choices[0] of an *)
(* empty list is an IndexError inside the try block.                       *)

get_score(self, model, outcome) ==
    IF model = "None"
        THEN [raised |-> NoException, value |-> <<"Error", ":", "Model", "not", "set">>,
              calls |-> <<>>]
    ELSE LET messages == <<[role |-> "system", content |-> self.system_prompt],
                           [role |-> "user", content |-> self.prompt]>>
             call     == [callee          |-> model,
                          model           |-> "gpt-4o",
                          messages        |-> messages,
                          response_format |-> response_format(self.task_name)]
         IN  IF outcome.kind = "raises"
                 THEN [raised |-> wrap_error(outcome), value |-> <<>>,
                       calls |-> <<call>>]
             ELSE IF outcome.choices = <<>>
                 THEN [raised |-> wrap_error(Exception("IndexError",
                                      <<"list", "index", "out", "of", "range">>)),
                       value |-> <<>>, calls |-> <<call>>]
             ELSE [raised |-> NoException, value |-> outcome.choices[1],
                   calls |-> <<call>>]


---------------------------------------------------------------------------
(* StaticGraphVisualizer.visualize and GraphVisualizer.visualize.  A       *)
(* layout function returns positions for the nodes of the graph; the       *)
(* plotting calls are recorded in the order they are made.                 *)

NoVisualize == [class |-> "", graph |-> EmptyDiGraph, layout |-> "", save_path |-> "None"]

LayoutNames == {"spring", "circular", "shell", "random"}

Positions(layout, g) == [layout |-> layout, nodes |-> g.nodes]

(* StaticGraphVisualizer.layout[layout](graph): a dictionary lookup.       *)

static_layout(layout, g) ==
    IF layout \in LayoutNames
        THEN [raised |-> NoException, value |-> Positions(layout, g)]
        ELSE [raised |-> Exception("KeyError", <<layout>>),
              value |-> Positions("", EmptyDiGraph)]

(* GraphVisualizer._get_layout: an if chain with a final else.             *)

get_layout(layout, g) ==
    IF layout = "spring" THEN [raised |-> NoException, value |-> Positions("spring", g)]
    ELSE IF layout = "circular"
        THEN [raised |-> NoException, value |-> Positions("circular", g)]
    ELSE IF layout = "shell"
        THEN [raised |-> NoException, value |-> Positions("shell", g)]
    ELSE IF layout = "random"
        THEN [raised |-> NoException, value |-> Positions("random", g)]
    ELSE [raised |-> Exception("ValueError", <<"Unsupported", "layout", ":", layout>>),
          value |-> Positions("", EmptyDiGraph)]

draw(g, pos, save_path) ==
    <<[call |-> "figure", pos |-> Positions("", EmptyDiGraph), labels |-> {}],
      [call |-> "draw", pos |-> pos, labels |-> {}],
      [call |-> "draw_networkx_edge_labels", pos |-> pos, labels |-> g.edges]>>
        \o (IF save_path # "None"
                THEN <<[call |-> "savefig", pos |-> Positions("", EmptyDiGraph),
                        labels |-> {}]>>
                ELSE <<>>)
        \o <<[call |-> "show", pos |-> Positions("", EmptyDiGraph), labels |-> {}]>>

visualize(pos, g, save_path) ==
    IF pos.raised.type # "none" THEN [raised |-> pos.raised, steps |-> <<>>]
    ELSE [raised |-> NoException, steps |-> draw(g, pos.value, save_path)]

---------------------------------------------------------------------------
(* Inputs.  A matrix is any list of at most MaxN rows of at most MaxN      *)
(* weights each (square or not), with at most MaxNonZero non-zero cells.   *)
(* A label map has the keys 0..n-1 stored in any order; labels are opaque  *)
(* to the code, so they are enumerated up to renaming: the label of key k  *)
(* is one used by a smaller key or the next unused name.                   *)

Rows == UNION {[1..n -> Weights] : n \in 0..MaxN}

NonZeroCells(m) == {<<r, c>> \in (1..MaxN) \X (1..MaxN) :
                        r \in DOMAIN m /\ c \in DOMAIN m[r] /\ m[r][c] # 0}

Matrices == {m \in UNION {[1..r -> Rows] : r \in 0..MaxN} :
                 Cardinality(NonZeroCells(m)) <= MaxNonZero}

Square(m) == \A r \in DOMAIN m : Len(m[r]) = Len(m)

SquareMatrices == {m \in Matrices : Square(m)}

Perms(n) == {p \in [1..n -> 0..(n - 1)] :
                 \A a, b \in 1..n : a # b => p[a] # p[b]}

Labelings(n) == {l \in [0..(n - 1) -> 1..n] :
                     \A k \in 0..(n - 1) :
                         l[k] = 1 \/ \E h \in 0..(k - 1) : l[h] = l[k] - 1}

LabelMaps == UNION {{[pos \in 1..n |-> [key   |-> p[pos],
                                        value |-> LabelNames[l[p[pos]]]]] :
                         p \in Perms(n), l \in Labelings(n)} : n \in 0..MaxN}

---------------------------------------------------------------------------
(* The caller: constructs one GraphProcessor, then calls filter_graph,     *)
(* ThresholdFilter.apply and extract_intent_and_matrix_from_graph in any   *)
(* order, on the processor's graph or on the graph returned last.  Under   *)
(* Spec the caller keeps the documented precondition (an N x N matrix and  *)
(* N labels); under SpecShapes it hands over any matrix and any label map. *)
(* Extract is called with the graph (nargs = 1) or with no argument.       *)
(* ApplyNonNumeric applies a ThresholdFilter built with a string.          *)

Init ==
    /\ pc = "new"
    /\ arg_matrix = <<>>
    /\ arg_labels = <<>>
    /\ transition_matrix = <<>>
    /\ intent_by_cluster = <<>>
    /\ graph = NoValue
    /\ last_call = "none"
    /\ applied_to = NoValue
    /\ threshold = 0
    /\ raised = "none"
    /\ returned = NoValue
    /\ caller_matrix = <<>>
    /\ caller_labels = <<>>
    /\ input_after = NoValue
    /\ same_object = FALSE
    /\ copies = 0
    /\ chain = {}
    /\ client_pc = "new"
    /\ init_args = NoInitArgs
    /\ client = NoClient
    /\ call_args = NoCall
    /\ response = NoResponse
    /\ posts = <<>>
    /\ client_raised = NoException
    /\ client_returned = NoValue
    /\ caller_data = NoConversationData
    /\ judge_model = "None"
    /\ metrics = <<>>
    /\ score_of = 0
    /\ judge_calls = <<>>
    /\ judge_outcome = NoOutcome
    /\ score_raised = NoException
    /\ score_returned = <<>>
    /\ viz_call = NoVisualize
    /\ viz_steps = <<>>
    /\ viz_raised = NoException

Graphs == {graph} \cup (IF IsDiGraph(returned) THEN {returned} ELSE {})

GraphProcessor(m, l) ==
    /\ arg_matrix' = m
    /\ arg_labels' = l
    /\ intent_by_cluster' = l
    /\ caller_labels' = l
    /\ LET r == construct_graph(m, l)
       IN  /\ graph' = r.value
           /\ raised' = r.raised
           /\ pc' = IF r.raised = "none" THEN "ready" ELSE "failed"
           /\ transition_matrix' = r.matrix
           /\ caller_matrix' = r.matrix
    /\ last_call' = "init"
    /\ applied_to' = NoValue
    /\ threshold' = 0
    /\ returned' = NoValue
    /\ input_after' = NoValue
    /\ same_object' = FALSE
    /\ copies' = 0
    /\ chain' = {}
    /\ UNCHANGED <<clientVars, metricsVars, vizVars>>

Construct ==
    /\ pc = "new"
    /\ \E m \in SquareMatrices, l \in LabelMaps :
         /\ Len(l) = Len(m)
         /\ GraphProcessor(m, l)

ConstructAnyShape ==
    /\ pc = "new"
    /\ \E m \in Matrices, l \in LabelMaps : GraphProcessor(m, l)

FilterGraph(t) ==
    /\ pc = "ready"
    /\ \E arr \in np_array(transition_matrix) :
         LET r == filter_graph(Self, ThresholdFilter(t), arr)
         IN  /\ transition_matrix' = r.self.transition_matrix
             /\ intent_by_cluster' = r.self.intent_by_cluster
             /\ graph' = r.self.graph
             /\ raised' = r.raised
             /\ returned' = r.value
    /\ last_call' = "filter_graph"
    /\ applied_to' = graph
    /\ threshold' = t
    /\ input_after' = NoValue
    /\ same_object' = FALSE
    /\ copies' = 0
    /\ chain' = {}
    /\ UNCHANGED <<clientVars, metricsVars, vizVars>>
    /\ UNCHANGED <<pc, arg_matrix, arg_labels, caller_matrix, caller_labels>>

Apply(t) ==
    /\ pc = "ready"
    /\ \E g \in Graphs :
         LET r == call_apply(ThresholdFilter(t), <<g>>)
         IN  /\ applied_to' = g
             /\ raised' = r.raised
             /\ returned' = r.value
             /\ input_after' = r.heap[1]
             /\ same_object' = (r.id = 1)
             /\ copies' = Len(r.heap) - 1
    /\ last_call' = "apply"
    /\ chain' = {}
    /\ threshold' = t
    /\ UNCHANGED <<pc, arg_matrix, arg_labels, transition_matrix,
                   intent_by_cluster, graph, caller_matrix, caller_labels>>
    /\ UNCHANGED <<clientVars, metricsVars, vizVars>>

ApplyNonNumeric ==
    /\ pc = "ready"
    /\ \E g \in Graphs :
         LET r == call_apply(NonNumericThresholdFilter, <<g>>)
         IN  /\ applied_to' = g
             /\ raised' = r.raised
             /\ returned' = r.value
             /\ input_after' = r.heap[1]
             /\ same_object' = (r.id = 1)
             /\ copies' = Len(r.heap) - 1
    /\ last_call' = "apply_non_numeric"
    /\ chain' = {}
    /\ threshold' = 0
    /\ UNCHANGED <<pc, arg_matrix, arg_labels, transition_matrix,
                   intent_by_cluster, graph, caller_matrix, caller_labels>>
    /\ UNCHANGED <<clientVars, metricsVars, vizVars>>

Extract(nargs) ==
    /\ pc = "ready"
    /\ \E g \in Graphs :
         LET args == IF nargs = 0 THEN <<>> ELSE <<g>>
             r    == call_extract(args)
         IN  /\ applied_to' = IF nargs = 0 THEN NoValue ELSE g
             /\ raised' = r.raised
             /\ returned' = r.value
    /\ last_call' = "extract"
    /\ threshold' = 0
    /\ input_after' = NoValue
    /\ same_object' = FALSE
    /\ copies' = 0
    /\ chain' = {}
    /\ UNCHANGED <<pc, arg_matrix, arg_labels, transition_matrix,
                   intent_by_cluster, graph, caller_matrix, caller_labels>>
    /\ UNCHANGED <<clientVars, metricsVars, vizVars>>

Next ==
    \/ Construct
    \/ \E t \in Thresholds : FilterGraph(t)
    \/ \E t \in Thresholds : Apply(t)
    \/ ApplyNonNumeric
    \/ \E nargs \in {0, 1} : Extract(nargs)

Spec == Init /\ [][Next]_vars

NextShapes ==
    \/ ConstructAnyShape
    \/ \E t \in Thresholds : FilterGraph(t)

SpecShapes == Init /\ [][NextShapes]_vars

(* ThresholdFilter(t).apply on the result of the previous apply, the first *)
(* one on the processor's graph.                                           *)

ApplyChain(t) ==
    /\ pc = "ready"
    /\ LET g == IF chain = {} THEN graph ELSE returned
           r == call_apply(ThresholdFilter(t), <<g>>)
       IN  /\ applied_to' = g
           /\ raised' = r.raised
           /\ returned' = r.value
           /\ input_after' = r.heap[1]
           /\ same_object' = (r.id = 1)
           /\ copies' = Len(r.heap) - 1
    /\ last_call' = "apply"
    /\ threshold' = t
    /\ chain' = chain \cup {t}
    /\ UNCHANGED <<pc, arg_matrix, arg_labels, transition_matrix,
                   intent_by_cluster, graph, caller_matrix, caller_labels>>
    /\ UNCHANGED <<clientVars, metricsVars, vizVars>>

NextChain ==
    \/ Construct
    \/ \E t \in Thresholds : ApplyChain(t)
    \/ \E t \in Thresholds : FilterGraph(t)

SpecChain == Init /\ [][NextChain]_vars

---------------------------------------------------------------------------
(* What a caller passes to AiklyraClient and what the service answers.     *)

DefaultBaseUrl == <<"http://localhost:8002">>

InitArgs ==
    {[has_api_key |-> k, api_key |-> IF k THEN "key" ELSE "", base_url |-> u] :
        k \in BOOLEAN, u \in {DefaultBaseUrl, <<"http://api.test", "/">>}}

Messages ==
    {[has_role |-> TRUE, role |-> r, content |-> "hi"] : r \in {"user", "assistant"}}
        \cup {[has_role |-> FALSE, role |-> "", content |-> "hi"]}

Conversations == UNION {[1..n -> Messages] : n \in 0..MaxMessages}

(* A list instead of a dictionary, or a dictionary of at most two          *)
(* conversations with at most MaxMessages messages in all.                 *)

ConversationData ==
    {[type |-> "list", items |-> <<>>], [type |-> "dict", items |-> <<>>]}
        \cup {[type |-> "dict", items |-> <<[key |-> "session_1", value |-> c]>>] :
                 c \in Conversations}
        \cup {[type |-> "dict", items |-> <<[key |-> "session_1", value |-> c[1]],
                                            [key |-> "session_2", value |-> c[2]]>>] :
                 c \in {x \in Conversations \X Conversations :
                            Len(x[1]) + Len(x[2]) <= MaxMessages}}

MinClusterArgs == (-1..MaxClusterArg) \cup {DefaultMinClusters}

MaxClusterArgs == (-1..MaxClusterArg) \cup {DefaultMaxClusters}

Roles == {"Any", "user"}

Details ==
    {<<"Invalid", "API", "Key">>,
     <<"Insufficient", "credits">>,
     <<"Insufficient", "credits", "or", "Invalid", "API", "Key">>,
     <<"invalid", "api", "key">>,
     <<"Not", "allowed">>}

Response(status, json, model_valid, detail_type, detail) ==
    [kind |-> "response", status |-> status, json |-> json,
     model_valid |-> model_valid, detail_type |-> detail_type,
     detail |-> detail, text |-> <<"body">>]

Responses ==
    {[NoResponse EXCEPT !.kind = "RequestException"]}
        \cup {Response(200, j, FALSE, "absent", <<>>) : j \in {"not_json", "list", "dict"}}
        \cup {Response(200, "dict", TRUE, "absent", <<>>)}
        \cup {Response(403, j, FALSE, "absent", <<>>) : j \in {"not_json", "list", "dict"}}
        \cup {Response(403, "dict", FALSE, "null", <<>>)}
        \cup {Response(403, "dict", FALSE, "str", d) : d \in Details}
        \cup {Response(st, "dict", FALSE, "absent", <<>>) : st \in {201, 404, 422, 500}}

NewClient ==
    /\ client_pc = "new"
    /\ \E args \in InitArgs :
        LET r == client_init(args)
        IN  /\ init_args' = args
            /\ client' = r.self
            /\ client_raised' = r.raised
            /\ client_pc' = IF r.raised.type = "none" THEN "ready" ELSE "failed"
    /\ UNCHANGED <<call_args, response, posts, client_returned, caller_data>>
    /\ UNCHANGED <<graphVars, metricsVars, vizVars>>

Analyse ==
    /\ client_pc = "ready"
    /\ \E cd \in ConversationData, mn \in MinClusterArgs, mx \in MaxClusterArgs,
          role \in Roles, resp \in Responses :
        LET args == ConversationFlowAnalysisRequest(cd, mn, mx, DefaultTopK, role)
            r    == analyse(client, args, resp)
        IN  /\ call_args' = args
            /\ posts' = r.posts
            /\ response' = IF r.posts = <<>> THEN NoResponse ELSE resp
            /\ client_raised' = r.raised
            /\ client_returned' = r.value
            /\ caller_data' = r.input
    /\ client_pc' = "called"
    /\ UNCHANGED <<init_args, client>>
    /\ UNCHANGED <<graphVars, metricsVars, vizVars>>

NextClient ==
    \/ NewClient
    \/ Analyse

SpecClient == Init /\ [][NextClient]_vars

---------------------------------------------------------------------------
(* What callers pass to AgentMetrics and what the judge model answers.     *)

ModelInstances == {"None", "model_1", "model_2"}

TaskNames == {"faithfulness", "topic_adherence"}

LlmAnswers == {"None", "answer"}

PromptFiles == {"present", "missing", "unreadable"}

Contents == {<<"Score", ":", "0.8">>, <<>>}

Outcomes ==
    {[NoOutcome EXCEPT !.kind = "raises", !.type = "Exception",
                       !.message = <<"API", "error">>],
     [NoOutcome EXCEPT !.kind = "raises", !.type = "RateLimitError",
                       !.message = <<"rate", "limit", "reached">>],
     [NoOutcome EXCEPT !.kind = "result"]}
        \cup {[NoOutcome EXCEPT !.kind = "result", !.choices = <<c>>] : c \in Contents}
        \cup {[NoOutcome EXCEPT !.kind = "result",
                                !.choices = <<<<"Score", ":", "0.8">>, <<"other">>>>]}

AgentMetrics ==
    /\ Len(metrics) < MaxInstances
    /\ \E task_name \in TaskNames, llm_answer \in LlmAnswers,
          model_instance \in ModelInstances, file \in PromptFiles :
        LET r == agent_metrics_init(judge_model, task_name, llm_answer,
                                    model_instance, file)
        IN  /\ judge_model' = r.judge_model
            /\ metrics' = IF r.raised.type = "none" THEN Append(metrics, r.self)
                          ELSE metrics
            /\ score_raised' = r.raised
    /\ score_of' = 0
    /\ judge_calls' = <<>>
    /\ judge_outcome' = NoOutcome
    /\ score_returned' = <<>>
    /\ UNCHANGED <<graphVars, clientVars, vizVars>>

GetScore ==
    /\ \E i \in DOMAIN metrics, outcome \in Outcomes :
        LET r == get_score(metrics[i], judge_model, outcome)
        IN  /\ score_of' = i
            /\ judge_calls' = r.calls
            /\ judge_outcome' = IF r.calls = <<>> THEN NoOutcome ELSE outcome
            /\ score_raised' = r.raised
            /\ score_returned' = r.value
    /\ UNCHANGED <<judge_model, metrics>>
    /\ UNCHANGED <<graphVars, clientVars, vizVars>>

NextMetrics ==
    \/ AgentMetrics
    \/ GetScore

SpecMetrics == Init /\ [][NextMetrics]_vars

---------------------------------------------------------------------------
(* The graphs, layout names and paths given to the visualizers.            *)

VizNodes == {<<>>, <<"a">>, <<"a", "b">>}

VizGraphs ==
    UNION {{[kind |-> "DiGraph", nodes |-> n,
             edges |-> {[u |-> e[1], v |-> e[2], weight |-> 9] : e \in E}] :
               E \in SUBSET (Range(n) \X Range(n))} : n \in VizNodes}

VizLayouts == LayoutNames \cup {"kamada_kawai", "Spring"}

SavePaths == {"None", "graph.png"}

StaticVisualize ==
    /\ \E g \in VizGraphs, layout \in VizLayouts, save_path \in SavePaths :
        LET r == visualize(static_layout(layout, g), g, save_path)
        IN  /\ viz_call' = [class |-> "StaticGraphVisualizer", graph |-> g,
                            layout |-> layout, save_path |-> save_path]
            /\ viz_steps' = r.steps
            /\ viz_raised' = r.raised
    /\ UNCHANGED <<graphVars, clientVars, metricsVars>>

GraphVisualize ==
    /\ \E g \in VizGraphs, layout \in VizLayouts, save_path \in SavePaths :
        LET r == visualize(get_layout(layout, g), g, save_path)
        IN  /\ viz_call' = [class |-> "GraphVisualizer", graph |-> g,
                            layout |-> layout, save_path |-> save_path]
            /\ viz_steps' = r.steps
            /\ viz_raised' = r.raised
    /\ UNCHANGED <<graphVars, clientVars, metricsVars>>

NextVisualizer ==
    \/ StaticVisualize
    \/ GraphVisualize

SpecVisualizer == Init /\ [][NextVisualizer]_vars

---------------------------------------------------------------------------
(* Properties *)

Idx(m) == 0..(Len(m) - 1)

Cell(m, i, j) == m[i + 1][j + 1]

ValidPair(m, l) == Square(m) /\ Len(l) = Len(m)

DistinctLabels(l) == \A p, q \in DOMAIN l : p # q => l[p].value # l[q].value

Built == pc = "ready" /\ ValidPair(arg_matrix, arg_labels)

Applied == last_call = "apply"

C3_ThresholdEdges ==
    Applied => /\ raised = "none"
               /\ IsDiGraph(returned)
               /\ returned.edges = {e \in applied_to.edges : e.weight >= threshold}

C3_Witness ==
    /\ Applied
    /\ \E e \in applied_to.edges : e.weight = threshold /\ e \in returned.edges
    /\ \E e \in applied_to.edges : e \notin returned.edges
    /\ \E e \in returned.edges : e.weight > threshold

(* C4: ThresholdFilter(t).apply(g) returns without error a graph with the  *)
(* node set of g, also when no edge remains.                               *)
C4_NodePreservation ==
    Applied => /\ raised = "none"
               /\ IsDiGraph(returned)
               /\ Nodes(returned) = Nodes(applied_to)

C4_Witness ==
    /\ Applied
    /\ applied_to.edges # {}
    /\ returned.edges = {}
    /\ Cardinality(Nodes(returned)) >= 2

(* C5: for t1 < t2 the edges of g filtered at t2 are a subset of the edges *)
(* of g filtered at t1.                                                    *)
C5_ThresholdMonotone ==
    (Applied /\ raised = "none") =>
        \A t2 \in Thresholds :
            threshold < t2 =>
                apply(ThresholdFilter(t2), applied_to).edges \subseteq returned.edges

C5_Witness ==
    /\ Applied
    /\ \E t2 \in Thresholds :
         /\ threshold < t2
         /\ apply(ThresholdFilter(t2), applied_to).edges # {}
         /\ apply(ThresholdFilter(t2), applied_to).edges # returned.edges
         /\ returned.edges # applied_to.edges

Extracted == last_call = "extract" /\ IsDiGraph(applied_to)

IndexOf(ibc, label) == (CHOOSE p \in DOMAIN ibc : ibc[p].value = label) - 1

(* C1: for every valid (M, L), extracting from the graph built from (M, L) *)
(* returns a matrix equal to M up to the relabeling of indices by node     *)
(* order, and a label map with the label set of L.                         *)
C1_RoundTrip ==
    (Built /\ Extracted /\ applied_to = graph) =>
        /\ raised = "none"
        /\ returned.kind = "tuple"
        /\ Range(Values(returned.intent_by_cluster)) = Range(Values(arg_labels))
        /\ Len(returned.transition_matrix) = Len(arg_matrix)
        /\ \A i, j \in Idx(arg_matrix) :
             Cell(returned.transition_matrix,
                  IndexOf(returned.intent_by_cluster, Get(arg_labels, i)),
                  IndexOf(returned.intent_by_cluster, Get(arg_labels, j)))
                 = Cell(arg_matrix, i, j)

(* C6: construction from a label map whose size differs from the matrix    *)
(* dimension, or from a matrix with a row of another length, fails (any    *)
(* exception is taken for the ShapeMismatch kind) and produces no graph.   *)
C6_ShapeValidation ==
    (last_call = "init" /\ ~ValidPair(arg_matrix, arg_labels)) =>
        /\ raised # "none"
        /\ pc = "failed"
        /\ graph = NoValue

(* C7, as stated: in the graph built from (M, L), every edge (L[i], L[j])  *)
(* that is present has weight M[i][j].                                     *)
C7_WeightExact ==
    Built => \A i, j \in Idx(arg_matrix) :
                 HasEdge(graph, Get(arg_labels, i), Get(arg_labels, j)) =>
                     EdgeWeight(graph, Get(arg_labels, i), Get(arg_labels, j))
                         = Cell(arg_matrix, i, j)

LastKeyOf(l, label) ==
    l[CHOOSE p \in DOMAIN l :
          /\ l[p].value = label
          /\ \A q \in DOMAIN l : l[q].value = label => q <= p].key

LargestKeyOf(l, label) ==
    CHOOSE k \in Keys(l) :
        /\ Get(l, k) = label
        /\ \A h \in Keys(l) : Get(l, h) = label => h <= k

(* C7, amended: every edge (L[i], L[j]) that is present has the weight of  *)
(* the cell M[i2][j2] written last for that pair of labels: i2 is the key  *)
(* stored last in L among those labelled L[i], j2 the largest key labelled *)
(* L[j].  With pairwise distinct labels that cell is M[i][j].              *)
C7_WeightOfLastCell ==
    Built => \A i, j \in Idx(arg_matrix) :
                 HasEdge(graph, Get(arg_labels, i), Get(arg_labels, j)) =>
                     /\ EdgeWeight(graph, Get(arg_labels, i), Get(arg_labels, j))
                            = Cell(arg_matrix,
                                   LastKeyOf(arg_labels, Get(arg_labels, i)),
                                   LargestKeyOf(arg_labels, Get(arg_labels, j)))
                     /\ DistinctLabels(arg_labels) =>
                            EdgeWeight(graph, Get(arg_labels, i), Get(arg_labels, j))
                                = Cell(arg_matrix, i, j)

C7_Witness ==
    /\ Built
    /\ DistinctLabels(arg_labels)
    /\ \E i, j \in Idx(arg_matrix) :
         /\ Cell(arg_matrix, i, j) = 9
         /\ Cell(arg_matrix, j, i) = -2
         /\ EdgeWeight(graph, Get(arg_labels, i), Get(arg_labels, j)) = 9
         /\ EdgeWeight(graph, Get(arg_labels, j), Get(arg_labels, i)) = -2

(* C8: for every graph g with M nodes the extraction returns an M x M      *)
(* matrix holding the weight of every edge at [index(u)][index(v)] and 0   *)
(* elsewhere, and a label map with the keys 0..M-1 for the same indices.   *)
C8_Extraction ==
    Extracted =>
        /\ raised = "none"
        /\ returned.kind = "tuple"
        /\ LET ibc == returned.intent_by_cluster
               tm  == returned.transition_matrix
               M   == Cardinality(Nodes(applied_to))
           IN  /\ Len(tm) = M /\ Square(tm)
               /\ Len(ibc) = M /\ Keys(ibc) = 0..(M - 1)
               /\ Range(Values(ibc)) = Nodes(applied_to)
               /\ \A i, j \in 0..(M - 1) :
                    Cell(tm, i, j) =
                        IF HasEdge(applied_to, Get(ibc, i), Get(ibc, j))
                            THEN EdgeWeight(applied_to, Get(ibc, i), Get(ibc, j))
                            ELSE 0

(* C9: in every state of a GraphProcessor the number of entries of         *)
(* intent_by_cluster equals the number of rows of transition_matrix and    *)
(* every row has that length.                                              *)
C9_ShapeInvariant ==
    pc = "ready" => /\ Len(intent_by_cluster) = Len(transition_matrix)
                    /\ Square(transition_matrix)

(* C10: filter_graph with a filter implementing apply(graph) completes     *)
(* without error and returns the graph the filter's apply produces from    *)
(* the processor's current graph.                                          *)
C10_FilterGraphApplies ==
    last_call = "filter_graph" =>
        /\ raised = "none"
        /\ returned = apply(ThresholdFilter(threshold), applied_to)

(* C11: ThresholdFilter(t).apply(g) leaves the nodes, edges and weights of *)
(* g as they were, and the graph it returns is another object than g.      *)
C11_InputNotMutated ==
    Applied => /\ input_after = applied_to
               /\ ~same_object

C11_Witness ==
    /\ Applied
    /\ raised = "none"
    /\ returned.edges # applied_to.edges
    /\ returned.edges # {}
    /\ input_after = applied_to
    /\ ~same_object

(* C12: after construction and after any sequence of filter_graph calls    *)
(* the caller's matrix and label map hold what they held when passed in.   *)
C12_CallerObjectsKept ==
    pc # "new" => /\ caller_matrix = arg_matrix
                  /\ caller_labels = arg_labels

C12_Witness ==
    /\ last_call = "filter_graph"
    /\ Len(arg_matrix) >= 2
    /\ \E i, j \in Idx(arg_matrix) : Cell(arg_matrix, i, j) # 0
    /\ caller_matrix = arg_matrix
    /\ caller_labels = arg_labels

(* C13: a ThresholdFilter with a non-numeric threshold is rejected (any    *)
(* exception is taken for the InvalidFilterParameter kind) before a graph  *)
(* is copied or an edge examined, whether or not the graph has edges.      *)
C13_InvalidThresholdRejected ==
    last_call = "apply_non_numeric" =>
        /\ raised # "none"
        /\ copies = 0
        /\ returned = NoValue

(* C14: building from an empty matrix and an empty label map gives a graph *)
(* with no node and no edge, and extraction on that graph returns an empty *)
(* matrix and an empty label map.                                          *)
C14_EmptyInput ==
    (Built /\ arg_matrix = <<>> /\ arg_labels = <<>>) =>
        /\ graph = EmptyDiGraph
        /\ (Extracted /\ applied_to = graph) =>
               /\ raised = "none"
               /\ returned.kind = "tuple"
               /\ returned.transition_matrix = <<>>
               /\ returned.intent_by_cluster = <<>>

---------------------------------------------------------------------------
(* Properties of AiklyraClient.analyse, checked under SpecClient.          *)

Called == client_pc = "called"

Answered == Called /\ posts # <<>> /\ response.kind = "response"

InvalidArguments(args) ==
    \/ args.conversation_data.type # "dict"
    \/ args.min_clusters <= 0
    \/ args.max_clusters <= 0
    \/ args.min_clusters > args.max_clusters

(* C15: when conversation_data is not a dictionary, or min_clusters <= 0,  *)
(* or max_clusters <= 0, or min_clusters > max_clusters, analyse raises    *)
(* ValidationError and sends no HTTP request.                              *)
C15_ValidationBeforeNetwork ==
    (Called /\ InvalidArguments(call_args)) =>
        /\ client_raised.type = "ValidationError"
        /\ posts = <<>>

C15_Witness ==
    /\ Called
    /\ call_args.conversation_data.type = "dict"
    /\ call_args.conversation_data.items # <<>>
    /\ call_args.min_clusters <= 0
    /\ call_args.max_clusters > 0
    /\ client_raised.type = "ValidationError"
    /\ posts = <<>>

(* str.lower() on the words the messages are made of.                      *)
LowerWord(w) ==
    CASE w = "Max" -> "max"
      [] w = "Min" -> "min"
      [] w = "Clusters" -> "clusters"
      [] OTHER -> w

Lower(text) == [k \in DOMAIN text |-> LowerWord(text[k])]

(* C16: the ValidationError says 'conversation_data must be a              *)
(* dictionary.' when conversation_data is not a dict, 'min_clusters and    *)
(* max_clusters must be positive integers.' when a cluster bound is not    *)
(* positive, and, compared without regard to case, 'max_clusters must be   *)
(* greater than or equal to min_clusters.' when min_clusters >             *)
(* max_clusters and both are positive.                                     *)
C16_ValidationMessages ==
    Called =>
        /\ call_args.conversation_data.type # "dict" =>
               client_raised.message =
                   <<"conversation_data", "must", "be", "a", "dictionary", ".">>
        /\ (/\ call_args.conversation_data.type = "dict"
            /\ (call_args.min_clusters <= 0 \/ call_args.max_clusters <= 0)) =>
               client_raised.message =
                   <<"min_clusters", "and", "max_clusters", "must", "be",
                     "positive", "integers", ".">>
        /\ (/\ call_args.conversation_data.type = "dict"
            /\ call_args.min_clusters > 0
            /\ call_args.max_clusters > 0
            /\ call_args.min_clusters > call_args.max_clusters) =>
               Contains(Lower(client_raised.message),
                        Lower(<<"max_clusters", "must", "be", "greater", "than",
                                "or", "equal", "to", "min_clusters", ".">>))

(* C17: a client can be constructed from a base_url alone, and a           *)
(* successful analyse call with default arguments sends exactly one POST,  *)
(* to base_url/BASE_ANALYSE_ENDPOINT, with exactly the headers             *)
(* Content-Type: application/json and accept: application/json, and with   *)
(* the request model of the given conversation_data, min_clusters 5,       *)
(* max_clusters 10, top_k_nearest_to_centroid 10 and role 'Any' as JSON.   *)
C17_DefaultSubmission ==
    /\ (client_pc # "new" /\ ~init_args.has_api_key) => client_pc # "failed"
    /\ (/\ Called
        /\ client_raised.type = "none"
        /\ call_args.min_clusters = DefaultMinClusters
        /\ call_args.max_clusters = DefaultMaxClusters
        /\ call_args.role = "Any") =>
           /\ Len(posts) = 1
           /\ posts[1].url = client.base_url \o <<"/", BASE_ANALYSE_ENDPOINT>>
           /\ posts[1].headers = {<<"Content-Type", <<"application/json">>>>,
                                  <<"accept", <<"application/json">>>>}
           /\ posts[1].json =
                  ConversationFlowAnalysisRequest(call_args.conversation_data,
                                                  5, 10, 10, "Any")

(* C18: when the service answers 200 with a body that cannot be parsed     *)
(* into the response model, analyse raises AnalysisError: it returns       *)
(* nothing and no other exception type escapes.                            *)
C18_UnparsableBody ==
    (/\ Answered
     /\ response.status = 200
     /\ ~(response.json = "dict" /\ response.model_valid)) =>
        /\ client_raised.type = "AnalysisError"
        /\ client_returned = NoValue

C18_Witness ==
    /\ Answered
    /\ response.status = 200
    /\ response.json = "list"
    /\ client_raised.type = "AnalysisError"
    /\ client_returned = NoValue

(* C19: for every status code other than 200 and 403, analyse raises       *)
(* AiklyraAPIError with a message containing 'Error <status code>'.        *)
C19_OtherStatus ==
    (Answered /\ response.status \notin {200, 403}) =>
        /\ client_raised.type = "AiklyraAPIError"
        /\ Contains(client_raised.message, <<"Error", ToString(response.status)>>)

C19_Witness ==
    /\ Answered
    /\ response.status = 500
    /\ client_raised.type = "AiklyraAPIError"
    /\ Contains(client_raised.message, <<"Error", "500">>)

HasDetailText == response.json = "dict" /\ response.detail_type = "str"

(* C20: on 403 a detail containing 'Insufficient credits' raises           *)
(* InsufficientCreditsError, a detail containing 'Invalid API Key' raises  *)
(* an AiklyraAPIError whose message contains 'Invalid API Key', and any    *)
(* other detail raises AiklyraAPIError.                                    *)
C20_DetailSelectsError ==
    (Answered /\ response.status = 403 /\ HasDetailText) =>
        /\ Contains(response.detail, <<"Insufficient", "credits">>) =>
               client_raised.type = "InsufficientCreditsError"
        /\ Contains(response.detail, <<"Invalid", "API", "Key">>) =>
               /\ IsInstance(client_raised.type, "AiklyraAPIError")
               /\ Contains(client_raised.message, <<"Invalid", "API", "Key">>)
        /\ (/\ ~Contains(response.detail, <<"Insufficient", "credits">>)
            /\ ~Contains(response.detail, <<"Invalid", "API", "Key">>)) =>
               IsInstance(client_raised.type, "AiklyraAPIError")

(* C20, amended: 'Invalid API Key' is looked for first.  A detail          *)
(* containing it raises InvalidAPIKeyError, an AiklyraAPIError whose       *)
(* message contains 'Invalid API Key', also when the detail contains       *)
(* 'Insufficient credits' as well; a detail containing only 'Insufficient  *)
(* credits' raises InsufficientCreditsError; any other detail text, and a  *)
(* body without detail, raises AiklyraAPIError itself with 'Forbidden:'    *)
(* and the detail as message.                                              *)
C20_DetailSelectsErrorInOrder ==
    (/\ Answered
     /\ response.status = 403
     /\ response.json = "dict"
     /\ response.detail_type \in {"str", "absent"}) =>
        IF Contains(response.detail, <<"Invalid", "API", "Key">>)
            THEN /\ client_raised.type = "InvalidAPIKeyError"
                 /\ IsInstance(client_raised.type, "AiklyraAPIError")
                 /\ Contains(client_raised.message, <<"Invalid", "API", "Key">>)
        ELSE IF Contains(response.detail, <<"Insufficient", "credits">>)
            THEN client_raised.type = "InsufficientCreditsError"
        ELSE /\ client_raised.type = "AiklyraAPIError"
             /\ client_raised.message = <<"Forbidden", ":">> \o response.detail

C20_Witness ==
    /\ Answered
    /\ response.status = 403
    /\ HasDetailText
    /\ Contains(response.detail, <<"Invalid", "API", "Key">>)
    /\ Contains(response.detail, <<"Insufficient", "credits">>)
    /\ client_raised.type = "InvalidAPIKeyError"

---------------------------------------------------------------------------
(* Properties of the processor's views and of sequences of filters.        *)

(* C24: for every valid (M, L), extraction from the graph built from       *)
(* (M, L) gives the label L[k] at every new index k in 0..N-1 and a matrix *)
(* equal to M cell for cell, whatever the order in which the keys of L are *)
(* stored.                                                                 *)
C24_InsertionOrderReindexing ==
    (Built /\ Extracted /\ applied_to = graph) =>
        /\ raised = "none"
        /\ returned.kind = "tuple"
        /\ Keys(returned.intent_by_cluster) = Idx(arg_matrix)
        /\ \A k \in Idx(arg_matrix) :
             Get(returned.intent_by_cluster, k) = Get(arg_labels, k)
        /\ Len(returned.transition_matrix) = Len(arg_matrix)
        /\ \A i, j \in Idx(arg_matrix) :
             Cell(returned.transition_matrix, i, j) = Cell(arg_matrix, i, j)

ViewsAgree ==
    /\ \A i, j \in Idx(transition_matrix) :
         Cell(transition_matrix, i, j) =
             IF HasEdge(graph, Get(intent_by_cluster, i), Get(intent_by_cluster, j))
                 THEN EdgeWeight(graph, Get(intent_by_cluster, i),
                                 Get(intent_by_cluster, j))
                 ELSE 0
    /\ Nodes(graph) = Range(Values(intent_by_cluster))
    /\ Len(graph.nodes) = Len(intent_by_cluster)

(* C26: in every state of a GraphProcessor built from a valid (M, L) and   *)
(* filtered any number of times, transition_matrix[i][j] is the weight of  *)
(* the edge (intent_by_cluster[i], intent_by_cluster[j]) if there is one   *)
(* and 0 otherwise, and the nodes are the values of intent_by_cluster, one *)
(* node per index.                                                         *)
C26_ViewsAgree == Built => ViewsAgree

(* C26, amended: the same for a valid (M, L) whose labels are pairwise     *)
(* distinct, after construction and after every filter_graph call.         *)
C26_ViewsAgreeDistinctLabels ==
    (Built /\ DistinctLabels(arg_labels)) => ViewsAgree

C26_Witness ==
    /\ Built
    /\ DistinctLabels(arg_labels)
    /\ last_call = "filter_graph"
    /\ Len(arg_matrix) >= 2
    /\ \E i, j \in Idx(transition_matrix) :
         /\ i # j
         /\ Cell(transition_matrix, i, j) # 0
         /\ Cell(transition_matrix, i, j) # Cell(transition_matrix, j, i)
    /\ ViewsAgree

Max(S) == CHOOSE x \in S : \A y \in S : y <= x

KeptEdges(g, t) == {e \in g.edges : e.weight >= t}

ChainDirectly ==
    (last_call = "apply" /\ chain # {}) =>
        /\ raised = "none"
        /\ returned.nodes = graph.nodes
        /\ returned.edges = KeptEdges(graph, Max(chain))

ChainThroughFilterGraph ==
    last_call = "filter_graph" =>
        /\ raised = "none"
        /\ graph.nodes = applied_to.nodes
        /\ graph.edges = KeptEdges(applied_to, threshold)

(* C27: after threshold filters t1..tk applied one after another, starting *)
(* from a graph g, directly or through filter_graph, the edges are those   *)
(* of g with weight >= max(t1..tk) and the nodes those of g (so neither    *)
(* the order of the thresholds nor a repetition matters).                  *)
C27_Composition == ChainDirectly /\ ChainThroughFilterGraph

---------------------------------------------------------------------------
(* Further properties of AiklyraClient.analyse, checked under SpecClient.  *)

Sent == posts[1].json.conversation_data

HasRole(msg, role) == msg.has_role /\ msg.role = role

(* C25: with a role other than 'Any' the conversation data sent has every  *)
(* conversation id of the input, also those whose filtered list is empty,  *)
(* each with exactly the input messages of that role in their original     *)
(* order; with 'Any' it is sent unchanged; the caller's dictionary is not  *)
(* changed in either case.                                                 *)
C25_RoleFiltering ==
    Called =>
        /\ caller_data = call_args.conversation_data
        /\ posts # <<>> =>
             LET input == call_args.conversation_data
             IN  IF call_args.role = "Any" THEN Sent = input
                 ELSE /\ Sent.type = "dict"
                      /\ Len(Sent.items) = Len(input.items)
                      /\ \A p \in DOMAIN input.items :
                           /\ Sent.items[p].key = input.items[p].key
                           /\ Sent.items[p].value =
                                  SelectSeq(input.items[p].value,
                                            LAMBDA msg : HasRole(msg, call_args.role))

C25_Witness ==
    /\ Called
    /\ posts # <<>>
    /\ call_args.role = "user"
    /\ Len(call_args.conversation_data.items) = 2
    /\ Len(Sent.items) = 2
    /\ \E p, q \in DOMAIN Sent.items :
         /\ Sent.items[p].value = <<>>
         /\ call_args.conversation_data.items[p].value # <<>>
         /\ Sent.items[q].value # <<>>
    /\ caller_data = call_args.conversation_data

(* C30: every analyse call returns a parsed response or raises             *)
(* ValidationError or AiklyraAPIError (or one of its subclasses); no other *)
(* exception type escapes, whatever the input, the transport, the status   *)
(* code and the body.                                                      *)
C30_ClosedErrorTaxonomy ==
    Called =>
        \/ client_raised.type = "none" /\ client_returned # NoValue
        \/ client_raised.type = "ValidationError"
        \/ IsInstance(client_raised.type, "AiklyraAPIError")

---------------------------------------------------------------------------
(* Properties of AgentMetrics._get_score, checked under SpecMetrics.       *)

GotScore == score_of # 0

JudgeCalledOnce ==
    /\ Len(judge_calls) = 1
    /\ judge_calls[1].model = "gpt-4o"
    /\ judge_calls[1].messages =
           <<[role |-> "system", content |-> metrics[score_of].system_prompt],
             [role |-> "user", content |-> metrics[score_of].prompt]>>
    /\ judge_calls[1].response_format \in {"FaithfulnessSchema", "ScoreSchema"}
    /\ judge_calls[1].response_format = "FaithfulnessSchema"
           <=> metrics[score_of].task_name = "faithfulness"
    /\ (judge_outcome.kind = "result" /\ judge_outcome.choices # <<>>) =>
           /\ score_raised.type = "none"
           /\ score_returned = judge_outcome.choices[1]

(* C21: _get_score calls the judge model exactly once with model 'gpt-4o', *)
(* the messages [system prompt, user prompt] in that order and             *)
(* response_format FaithfulnessSchema if and only if task_name is          *)
(* 'faithfulness' (ScoreSchema otherwise), and returns the content of the  *)
(* first choice's message unchanged.                                       *)
C21_JudgeCall == GotScore => JudgeCalledOnce

(* C21, amended: so it does when LLMClient.judge_model is set; when it is  *)
(* None, _get_score calls nothing and returns 'Error : Model not set'.     *)
C21_JudgeCallWhenModelSet ==
    GotScore =>
        IF judge_model # "None" THEN JudgeCalledOnce
        ELSE /\ judge_calls = <<>>
             /\ score_raised.type = "none"
             /\ score_returned = <<"Error", ":", "Model", "not", "set">>

C21_Witness ==
    /\ GotScore
    /\ judge_model # "None"
    /\ metrics[score_of].task_name = "faithfulness"
    /\ Len(judge_outcome.choices) = 2
    /\ score_returned = judge_outcome.choices[1]
    /\ score_returned # <<>>
    /\ JudgeCalledOnce

(* C22: when the judge-model call raises, _get_score raises ValueError     *)
(* whose text contains the original message, and nothing else escapes or   *)
(* is returned.                                                            *)
C22_JudgeErrorWrapped ==
    (GotScore /\ judge_outcome.kind = "raises") =>
        /\ score_raised.type = "ValueError"
        /\ Contains(score_raised.message, judge_outcome.message)
        /\ score_returned = <<>>

C22_Witness ==
    /\ GotScore
    /\ judge_outcome.kind = "raises"
    /\ judge_outcome.type = "RateLimitError"
    /\ score_raised.type = "ValueError"
    /\ Contains(score_raised.message, <<"rate", "limit", "reached">>)

(* C29: _get_score on an instance calls the model_instance that was passed *)
(* to that instance's own constructor (and none for an instance created    *)
(* without a model), however constructions and _get_score calls of several *)
(* instances interleave.                                                   *)
C29_JudgeModelIsolation ==
    GotScore =>
        IF metrics[score_of].model_instance = "None" THEN judge_calls = <<>>
        ELSE /\ Len(judge_calls) = 1
             /\ judge_calls[1].callee = metrics[score_of].model_instance

---------------------------------------------------------------------------
(* Property of the static visualizers, checked under SpecVisualizer.       *)

Visualized == viz_call.class # ""

(* C23: visualize accepts the layout names 'spring', 'circular', 'shell'   *)
(* and 'random' and completes the rendering for them; any other layout     *)
(* name is rejected with ValueError('Unsupported layout: ...') before      *)
(* anything is drawn.                                                      *)
C23_Layouts ==
    Visualized =>
        IF viz_call.layout \in {"spring", "circular", "shell", "random"}
            THEN /\ viz_raised.type = "none"
                 /\ viz_steps # <<>>
                 /\ viz_steps[Len(viz_steps)].call = "show"
                 /\ \E k \in DOMAIN viz_steps :
                      /\ viz_steps[k].call = "draw"
                      /\ viz_steps[k].pos = Positions(viz_call.layout, viz_call.graph)
            ELSE /\ viz_raised.type = "ValueError"
                 /\ Contains(viz_raised.message, <<"Unsupported", "layout", ":">>)
                 /\ viz_steps = <<>>

====
